---- MODULE Spec2Model ----
(***************************************************************************)
(* The joke retrieval service: the gRPC servicer (app/api/grpc_server.py,  *)
(* backed by the Chroma joke collection), the FastMCP tools                *)
(* (app/api/fastmcp_server.py, backed by the pgvector column), the         *)
(* embedding service (app/core/embeddings.py) and the SQL tables           *)
(* (app/models/joke.py).                                                   *)
(*                                                                         *)
(* Texts are sequences of one-character strings.  Distances and scores are *)
(* integers in hundredths: a distance of 0.95 is 95, a score of 0.05 is 5. *)
(* A nullable column is a set: NULL is {} and a value v is {v}.            *)
(***************************************************************************)
EXTENDS Integers, Sequences, FiniteSets, TLC

\* ------------------------------------------------------------------ bounds
MaxJokes == 2
MaxLogs == 1
MaxFeedback == 1
MaxTags == 2
MaxK == 2
MaxBatch == 2

\* --------------------------------------------------------- program constants
VECTOR_SIMILARITY_THRESHOLD == 5
DefaultMaxResults == 5

NULL == {}
Some(v) == {v}

\* ------------------------------------------------------------------ inputs
T1 == <<"H", "e", "n">>
T2 == <<"o", "w", "l">>
JokeTexts == {T1, T2}

Q1 == <<"h", "e">>
Q2 == <<"z">>
Queries == {Q1, Q2}

NoContext == <<>>
Ctx == <<"k">>
Contexts == {NoContext, Ctx}

Categories == {"", "pun"}
NoCategory == ""

TagNames == {"x", "y"}
TagLists == UNION {[1..n -> TagNames] : n \in 0..MaxTags}

\* f"{query} {context}" if context else query
QueryText(query, context) ==
    IF context # <<>> THEN query \o <<" ">> \o context ELSE query

\* SentenceTransformer.encode: the vector of a text, an opaque value
create_embedding(text) == <<"vec", text>>

\* The cosine distance, in hundredths, between the vectors the embedding
\* model gives a search text and a joke text.  The model is an opaque
\* deterministic function; this table fixes one that covers distance below,
\* at and above 1 - threshold, equal distances, and distances above 1.
ModelDistance(search_text, joke_text) ==
    CASE search_text = Q1 /\ joke_text = T1 -> 97
      [] search_text = Q1 /\ joke_text = T2 -> 97
      [] search_text = QueryText(Q1, Ctx) /\ joke_text = T1 -> 50
      [] search_text = QueryText(Q1, Ctx) /\ joke_text = T2 -> 150
      [] search_text = Q2 /\ joke_text = T1 -> 95
      [] search_text = Q2 /\ joke_text = T2 -> 100
      [] search_text = QueryText(Q2, Ctx) /\ joke_text = T1 -> 10
      [] search_text = QueryText(Q2, Ctx) /\ joke_text = T2 -> 96
      [] OTHER -> 100

cosine_distance(u, v) == ModelDistance(u[2], v[2])

\* ------------------------------------------------------------------- state
VARIABLES
    jokes,            \* table jokes: id -> [text, category, embedding]
    next_joke_id,     \* the sequence behind jokes.id
    tags,             \* table tags: id -> name
    joke_tags,        \* table joke_tags: set of <<joke_id, tag_id>>
    joke_collection,  \* Chroma collection "jokes": set of [db_id, text]
    query_logs,       \* table query_logs, in insertion order
    joke_feedback,    \* table joke_feedback, in insertion order
    in_flight,        \* calls in progress, between two of their commits or
                      \* writes
    last              \* the last call: its request and its response

vars == <<jokes, next_joke_id, tags, joke_tags, joke_collection,
          query_logs, joke_feedback, in_flight, last>>

Init ==
    /\ jokes = <<>>
    /\ next_joke_id = 1
    /\ tags = <<>>
    /\ joke_tags = {}
    /\ joke_collection = {}
    /\ query_logs = <<>>
    /\ joke_feedback = <<>>
    /\ in_flight = {}
    /\ last = [op |-> "init"]

\* ------------------------------------------------------------------ helpers
Min(a, b) == IF a < b THEN a ELSE b

\* [tag.name for tag in joke.tags], as a set
TagNamesOf(joke_id, tag_table, assoc) ==
    {tag_table[p[2]] : p \in {a \in assoc : a[1] = joke_id}}

\* db.query(Tag).filter(Tag.name == tag_name).first()
TagIdsNamed(tag_table, name) == {i \in DOMAIN tag_table : tag_table[i] = name}

\* ------------------------------------------------ EmbeddingService.search
\* joke_collection.query(query_texts=[query_text], n_results=k): the k nearest
\* documents by ascending distance; the order among equal distances is the
\* collection's, not the caller's.
ChromaQuery(collection, query_text, k) ==
    LET n == Min(k, Cardinality(collection))
        d(doc) == ModelDistance(query_text, doc.text)
    IN  {r \in [1..n -> collection] :
            /\ \A i, j \in 1..n : i # j => r[i] # r[j]
            /\ \A i, j \in 1..n : i < j => d(r[i]) <= d(r[j])
            /\ \A doc \in collection :
                 (\A i \in 1..n : r[i] # doc) =>
                     \A i \in 1..n : d(r[i]) <= d(doc)}

\* the distance handed on without the conversion to a similarity
SearchRow_RawDistance(doc, query_text) ==
    [id |-> doc.db_id, score |-> ModelDistance(query_text, doc.text)]

\* (int(meta["db_id"]), float(1.0 - distance)) for each result
SearchRow(doc, query_text) ==
    [id |-> doc.db_id, score |-> 100 - ModelDistance(query_text, doc.text)]

\* the failure of the collection query not turned into an empty list
search_Uncaught(collection, query_text, k, fault) ==
    {[i \in 1..Len(r) |-> SearchRow(r[i], query_text)] :
        r \in ChromaQuery(collection, query_text, k)}

\* search(query_text=..., k=...): every list the call can return.  A failing
\* collection query is caught and [] is returned.
search(collection, query_text, k, fault) ==
    IF fault = "search" \/ k <= 0
    THEN {<<>>}
    ELSE {[i \in 1..Len(r) |-> SearchRow(r[i], query_text)] :
             r \in ChromaQuery(collection, query_text, k)}

\* ------------------------------------------------------- gRPC responses
\* JokeServicer._create_joke_response
_create_joke_response(id, text, category, tag_names, score, needed, prompt) ==
    [id |-> id, text |-> text, category |-> category, tags |-> tag_names,
     relevance_score |-> score,
     is_clarification_needed |-> needed,
     clarification_prompt |-> prompt]

NoMatchText ==
    <<"I couldn't find a joke matching your query. Could you try a different topic?">>
NoMatchPrompt ==
    "Can you tell me more about what kind of joke you're looking for?"
AmbiguousPrompt ==
    "Your request was a bit ambiguous. Could you be more specific about the kind of joke you want?"

\* the response GetJoke gives when search returns nothing
GrpcNoMatch ==
    _create_joke_response(0, NoMatchText, "unknown", {}, 0, TRUE,
                          Some(NoMatchPrompt))

\* the response of GetJoke's except branch
GrpcGetJokeError ==
    _create_joke_response(0, <<"An error occurred while retrieving the joke.">>,
                          "error", {}, 0, FALSE, NULL)

\* a score equal to the threshold flagged as well
NeedsClarification_Inclusive(score) == score <= VECTOR_SIMILARITY_THRESHOLD

\* score < settings.VECTOR_SIMILARITY_THRESHOLD
NeedsClarification(score) == score < VECTOR_SIMILARITY_THRESHOLD

\* QueryLog(query=..., context=..., clarification_needed=...,
\*          selected_joke_id=..., relevance_score=...)
GrpcLogEntry(query, context, clarification_needed, selected, score) ==
    [query |-> query,
     context |-> IF context # <<>> THEN Some(context) ELSE NULL,
     embedding |-> NULL,
     clarification_needed |-> clarification_needed,
     selected_joke_id |-> selected,
     relevance_score |-> score]

\* db.flush() / db.commit() of a query log row: the foreign key
\* query_logs.selected_joke_id -> jokes.id must resolve, and the store must
\* accept the write
LogPersists(entry, fault) ==
    /\ fault # "log"
    /\ entry.selected_joke_id \subseteq DOMAIN jokes

GetJokeFaults == {"none", "search", "log"}

\* ------------------------------------------------- JokeServicer.GetJoke
GetJoke(query, context, fault) ==
    /\ \E joke_matches \in
            search(joke_collection, QueryText(query, context), 1, fault) :
          LET call == [op |-> "GetJoke", query |-> query, context |-> context,
                       fault |-> fault, matches |-> joke_matches]
          IN  IF joke_matches = <<>>
              THEN /\ last' = call @@ [code |-> "OK", resp |-> GrpcNoMatch]
                   /\ UNCHANGED query_logs
              ELSE LET joke_id == joke_matches[1].id
                       score == joke_matches[1].score
                       log_entry == GrpcLogEntry(query, context,
                                                 NeedsClarification(score),
                                                 Some(joke_id), Some(score))
                   IN  IF ~LogPersists(log_entry, fault)
                       THEN /\ last' = call @@ [code |-> "INTERNAL",
                                                resp |-> GrpcGetJokeError]
                            /\ UNCHANGED query_logs
                       ELSE /\ Len(query_logs) < MaxLogs
                            /\ query_logs' = Append(query_logs, log_entry)
                            /\ last' = call @@
                                 [code |-> "OK",
                                  resp |-> _create_joke_response(
                                      joke_id, jokes[joke_id].text,
                                      jokes[joke_id].category,
                                      TagNamesOf(joke_id, tags, joke_tags),
                                      score, NeedsClarification(score),
                                      IF NeedsClarification(score)
                                      THEN Some(AmbiguousPrompt) ELSE NULL)]
    /\ UNCHANGED <<jokes, next_joke_id, tags, joke_tags, joke_collection,
                   joke_feedback, in_flight>>

\* ------------------------------------------------ JokeServicer.GetJokes
GrpcNoMatchJokes ==
    _create_joke_response(
        0,
        <<"I couldn't find any jokes matching your query. Could you try a different topic?">>,
        "unknown", {}, 0, TRUE,
        Some("Can you tell me more about what kind of jokes you're looking for?"))

GrpcGetJokesError ==
    _create_joke_response(0, <<"An error occurred while retrieving jokes.">>,
                          "error", {}, 0, FALSE, NULL)

SpecificPrompt == "Could you be more specific about the type of joke you want?"

\* every order in which a query without ORDER BY can return the rows `ids`
RowOrders(ids) ==
    {p \in [1..Cardinality(ids) -> ids] :
        \A i, j \in 1..Cardinality(ids) : i # j => p[i] # p[j]}

\* {joke_id: score for joke_id, score in joke_matches}.get(id, 0.0)
IdToScore(joke_matches, id) ==
    LET hits == {i \in 1..Len(joke_matches) : joke_matches[i].id = id}
    IN  IF hits = {} THEN 0
        ELSE joke_matches[CHOOSE i \in hits : \A j \in hits : j <= i].score

\* every item flagged by the score of the first match
GrpcJokeItem_SharedFlag(joke_id, joke_matches) ==
    LET score == IdToScore(joke_matches, joke_id)
        first == joke_matches[1].score
    IN  _create_joke_response(
            joke_id, jokes[joke_id].text, jokes[joke_id].category,
            TagNamesOf(joke_id, tags, joke_tags), score,
            NeedsClarification(first),
            IF NeedsClarification(first) THEN Some(SpecificPrompt) ELSE NULL)

\* the response object built for one row of db.query(Joke).filter(id IN ...)
GrpcJokeItem(joke_id, joke_matches) ==
    LET score == IdToScore(joke_matches, joke_id)
    IN  _create_joke_response(
            joke_id, jokes[joke_id].text, jokes[joke_id].category,
            TagNamesOf(joke_id, tags, joke_tags), score,
            NeedsClarification(score),
            IF NeedsClarification(score) THEN Some(SpecificPrompt) ELSE NULL)

\* request.max_results if request.max_results else 5
EffectiveMaxResults(max_results) ==
    IF max_results # 0 THEN max_results ELSE DefaultMaxResults

GetJokes(query, context, max_results, fault) ==
    /\ \E joke_matches \in
            search(joke_collection, QueryText(query, context),
                   EffectiveMaxResults(max_results), fault) :
          LET call == [op |-> "GetJokes", query |-> query, context |-> context,
                       max_results |-> max_results, fault |-> fault,
                       matches |-> joke_matches]
              joke_ids == {joke_matches[i].id : i \in 1..Len(joke_matches)}
          IN  IF joke_matches = <<>>
              THEN /\ last' = call @@ [code |-> "OK",
                                       resp |-> <<GrpcNoMatchJokes>>]
                   /\ UNCHANGED query_logs
              ELSE \E rows \in RowOrders(joke_ids \cap DOMAIN jokes) :
                   LET joke_responses ==
                           [i \in 1..Len(rows) |->
                               GrpcJokeItem(rows[i], joke_matches)]
                       log_entry ==
                           GrpcLogEntry(
                               query, context,
                               \E i \in 1..Len(rows) :
                                   joke_responses[i].is_clarification_needed,
                               IF rows # <<>> THEN Some(rows[1]) ELSE NULL,
                               IF rows # <<>>
                               THEN Some(IdToScore(joke_matches, rows[1]))
                               ELSE Some(0))
                   IN  IF ~LogPersists(log_entry, fault)
                       THEN /\ last' = call @@ [code |-> "INTERNAL",
                                                resp |-> <<GrpcGetJokesError>>]
                            /\ UNCHANGED query_logs
                       ELSE /\ Len(query_logs) < MaxLogs
                            /\ query_logs' = Append(query_logs, log_entry)
                            /\ last' = call @@ [code |-> "OK",
                                                resp |-> joke_responses]
    /\ UNCHANGED <<jokes, next_joke_id, tags, joke_tags, joke_collection,
                   joke_feedback, in_flight>>

\* --------------------------------------------- JokeServicer.RecordFeedback
\* a response that reports success whatever happened
_create_feedback_response_AlwaysOk(success, message) ==
    [success |-> TRUE, message |-> message]

\* JokeServicer._create_feedback_response
_create_feedback_response(success, message) ==
    [success |-> success, message |-> message]

\* the existence check left out
JokeExists_Unchecked(joke_id) == TRUE

\* db.query(Joke).filter(Joke.id == joke_id).first() is not None
JokeExists(joke_id) == joke_id \in DOMAIN jokes

FeedbackFaults == {"none", "commit"}

RecordFeedback(joke_id, liked, fault) ==
    /\ IF ~JokeExists(joke_id)
       THEN /\ last' = [op |-> "RecordFeedback", joke_id |-> joke_id,
                        liked |-> liked, fault |-> fault, code |-> "NOT_FOUND",
                        resp |-> _create_feedback_response(FALSE, "Joke not found")]
            /\ UNCHANGED joke_feedback
       ELSE IF fault = "commit"
       THEN /\ last' = [op |-> "RecordFeedback", joke_id |-> joke_id,
                        liked |-> liked, fault |-> fault, code |-> "INTERNAL",
                        resp |-> _create_feedback_response(
                                     FALSE, "Error recording feedback")]
            /\ UNCHANGED joke_feedback
       ELSE /\ Len(joke_feedback) < MaxFeedback
            /\ joke_feedback' = Append(joke_feedback,
                   [joke_id |-> joke_id, liked |-> liked,
                    feedback_text |-> NULL])
            /\ last' = [op |-> "RecordFeedback", joke_id |-> joke_id,
                        liked |-> liked, fault |-> fault, code |-> "OK",
                        resp |-> _create_feedback_response(
                                     TRUE, "Feedback recorded successfully")]
    /\ UNCHANGED <<jokes, next_joke_id, tags, joke_tags, joke_collection,
                   query_logs, in_flight>>

\* ------------------------------------------------- JokeServicer.AddJoke
GrpcAddJokeError ==
    _create_joke_response(0, <<"An error occurred while adding the joke.">>,
                          "error", {}, 0, FALSE, NULL)

\* The tag loop of a session with autoflush off: a name with a committed Tag
\* row resolves to it, any other occurrence of a name makes a new pending Tag
\* (a pending Tag is invisible to the next query).  The result is the
\* sequence of pending names, one per occurrence.
PendingTagNames(tag_table, tag_names) ==
    SelectSeq(tag_names, LAMBDA nm : TagIdsNamed(tag_table, nm) = {})

\* tags.name is UNIQUE: the commit inserts the pending rows or raises
UniqueNames(names) ==
    \A i, j \in 1..Len(names) : i # j => names[i] # names[j]

\* the tags table after the pending rows are inserted
InsertTags(tag_table, names) ==
    [i \in 1..(Len(tag_table) + Len(names)) |->
        IF i <= Len(tag_table) THEN tag_table[i]
        ELSE names[i - Len(tag_table)]]

\* only the first tag of the list is attached
TagRows_FirstOnly(joke_id, tag_table, tag_names) ==
    IF tag_names = <<>> THEN {}
    ELSE {<<joke_id, t>> : t \in TagIdsNamed(tag_table, tag_names[1])}

\* the joke_tags rows of joke.tags after the commit
TagRows(joke_id, tag_table, tag_names) ==
    {<<joke_id, t>> : t \in UNION {TagIdsNamed(tag_table, tag_names[i]) :
                                      i \in 1..Len(tag_names)}}

AddJokeFaults == {"none", "chroma", "commit"}

AddJoke(text, category, tag_names, fault) ==
    LET call == [op |-> "AddJoke", text |-> text, category |-> category,
                 tag_names |-> tag_names, fault |-> fault]
        joke_id == next_joke_id
        pending == PendingTagNames(tags, tag_names)
        new_tags == InsertTags(tags, pending)
        failed == [code |-> "INTERNAL", resp |-> GrpcAddJokeError]
    IN  /\ next_joke_id <= MaxJokes
        \* db.add(joke); db.flush() draws the id, kept on rollback
        /\ next_joke_id' = next_joke_id + 1
        /\ IF fault = "chroma"
           THEN \* add_joke_to_chroma raises: the session rolls back
                /\ last' = call @@ failed
                /\ UNCHANGED <<jokes, tags, joke_tags, joke_collection>>
           ELSE /\ joke_collection' = joke_collection \cup
                                        {[db_id |-> joke_id, text |-> text]}
                /\ IF fault = "commit" \/ ~UniqueNames(pending)
                   THEN \* db.commit() raises: the SQL rows roll back, the
                        \* Chroma document stays
                        /\ last' = call @@ failed
                        /\ UNCHANGED <<jokes, tags, joke_tags>>
                   ELSE /\ jokes' = jokes @@ (joke_id :>
                               [text |-> text, category |-> category,
                                embedding |-> NULL])
                        /\ tags' = new_tags
                        /\ joke_tags' = joke_tags \cup
                               TagRows(joke_id, new_tags, tag_names)
                        /\ last' = call @@
                             [code |-> "OK",
                              resp |-> _create_joke_response(
                                  joke_id, text, category,
                                  TagNamesOf(joke_id, new_tags, joke_tags'),
                                  100, FALSE, NULL)]
        /\ UNCHANGED <<query_logs, joke_feedback, in_flight>>

\* ------------------------------- AddJoke on one of the server's ten threads
\* The handler runs on a pool thread (grpc.server(ThreadPoolExecutor(10))),
\* so other handlers run between its statements.  Its first part: db.add(joke),
\* db.flush(), add_joke_to_chroma and the tag loop.  The joke and tag rows are
\* pending in the open transaction; the Chroma document is written at once.
AddJokeWrite(text, category, tag_names) ==
    /\ next_joke_id <= MaxJokes
    /\ next_joke_id' = next_joke_id + 1
    /\ joke_collection' = joke_collection \cup
                            {[db_id |-> next_joke_id, text |-> text]}
    /\ in_flight' = in_flight \cup
           {[op |-> "AddJoke",
             joke_id |-> next_joke_id, text |-> text, category |-> category,
             tag_names |-> tag_names,
             pending |-> PendingTagNames(tags, tag_names)]}
    /\ UNCHANGED <<jokes, tags, joke_tags, query_logs, joke_feedback, last>>

\* the pending Tag rows can be inserted: no name twice, none committed by
\* another transaction in the meantime
TagsInsertable(tag_table, pending) ==
    /\ UniqueNames(pending)
    /\ \A i \in 1..Len(pending) : TagIdsNamed(tag_table, pending[i]) = {}

\* Its second part: db.commit(), db.refresh(joke) and the response, or the
\* except branch when the commit raises.
AddJokeCommit(call, fault) ==
    LET req == [op |-> "AddJoke", text |-> call.text,
                category |-> call.category, tag_names |-> call.tag_names,
                fault |-> fault]
        new_tags == InsertTags(tags, call.pending)
    IN  /\ call \in in_flight
        /\ call.op = "AddJoke"
        /\ in_flight' = in_flight \ {call}
        /\ IF fault = "commit" \/ ~TagsInsertable(tags, call.pending)
           THEN /\ last' = req @@ [code |-> "INTERNAL",
                                   resp |-> GrpcAddJokeError]
                /\ UNCHANGED <<jokes, tags, joke_tags>>
           ELSE /\ jokes' = jokes @@ (call.joke_id :>
                       [text |-> call.text, category |-> call.category,
                        embedding |-> NULL])
                /\ tags' = new_tags
                /\ joke_tags' = joke_tags \cup
                       TagRows(call.joke_id, new_tags, call.tag_names)
                /\ last' = req @@
                     [code |-> "OK",
                      resp |-> _create_joke_response(
                          call.joke_id, call.text, call.category,
                          TagNamesOf(call.joke_id, new_tags, joke_tags'),
                          100, FALSE, NULL)]
        /\ UNCHANGED <<next_joke_id, joke_collection, query_logs,
                       joke_feedback>>

\* ===================================================== FastMCP tools
\* JokeResponse(id=..., text=..., category=..., similarity_score=..., tags=...):
\* the model has no clarification field
JokeResponse(id, text, category, similarity_score, tag_names) ==
    [id |-> id, text |-> text, category |-> category,
     similarity_score |-> similarity_score, tags |-> tag_names]

\* what a caller sees when the tool function raises
Raised(error) == [raised |-> error]

\* QueryLog(query=query, context=context, embedding=query_embedding); the
\* other columns take their defaults
McpLogEntry(query, context, query_embedding) ==
    [query |-> query,
     context |-> IF context # <<>> THEN Some(context) ELSE NULL,
     embedding |-> Some(query_embedding),
     clarification_needed |-> FALSE,
     selected_joke_id |-> NULL,
     relevance_score |-> NULL]

\* Joke.embedding.cosine_distance(query_embedding) for one row: NULL for a
\* row whose embedding is NULL
RowDistance(joke_id, query_embedding) ==
    IF jokes[joke_id].embedding = NULL THEN NULL
    ELSE Some(cosine_distance(
             query_embedding,
             CHOOSE v \in jokes[joke_id].embedding : TRUE))

\* ORDER BY distance ASC: a NULL distance sorts last
OrderedBefore(da, db) ==
    \/ db = NULL
    \/ /\ da # NULL
       /\ (CHOOSE x \in da : TRUE) <= (CHOOSE y \in db : TRUE)

\* db.query(Joke).order_by(Joke.embedding.cosine_distance(q)).limit(k).all():
\* every row is a candidate, there is no filter on the embedding column
SqlNearest(query_embedding, limit) ==
    LET n == Min(limit, Cardinality(DOMAIN jokes))
        d(id) == RowDistance(id, query_embedding)
    IN  {r \in [1..n -> DOMAIN jokes] :
            /\ \A i, j \in 1..n : i # j => r[i] # r[j]
            /\ \A i, j \in 1..n : i < j => OrderedBefore(d(r[i]), d(r[j]))
            /\ \A id \in DOMAIN jokes :
                 (\A i \in 1..n : r[i] # id) =>
                     \A i \in 1..n : OrderedBefore(d(r[i]), d(id))}

\* similarity = 1.0 - (distance if distance is not None else 0.0)
McpSimilarity(distance) ==
    100 - (IF distance # NULL THEN CHOOSE x \in distance : TRUE ELSE 0)

McpJokeItem(joke_id, query_embedding) ==
    JokeResponse(joke_id, jokes[joke_id].text, Some(jokes[joke_id].category),
                 McpSimilarity(RowDistance(joke_id, query_embedding)),
                 TagNamesOf(joke_id, tags, joke_tags))

McpNoMatch ==
    JokeResponse(-1, <<"Sorry, I couldn't find a joke matching your query.">>,
                 NULL, 0, {})

McpNoMatchJokes ==
    JokeResponse(-1, <<"Sorry, I couldn't find any jokes matching your query.">>,
                 NULL, 0, {})

\* the rows a query returned, as (id, similarity) pairs
McpMatches(found, query_embedding) ==
    [i \in 1..Len(found) |->
        [id |-> found[i],
         score |-> McpSimilarity(RowDistance(found[i], query_embedding))]]

McpGetFaults == {"none", "log", "update"}

\* query_log.selected_joke_id = joke.id
WithSelected(entry, joke_id) ==
    [entry EXCEPT !.selected_joke_id = Some(joke_id)]

\* ---------------------------------------------------------------- get_joke
get_joke(query, context, fault) ==
    LET query_embedding == create_embedding(QueryText(query, context))
        query_log == McpLogEntry(query, context, query_embedding)
        call == [op |-> "get_joke", query |-> query, context |-> context,
                 fault |-> fault]
    IN  /\ IF fault = "log"
           THEN \* the first db.commit() raises; nothing catches it
                /\ last' = call @@ [code |-> "RAISED", matches |-> <<>>,
                                    resp |-> Raised("commit")]
                /\ UNCHANGED query_logs
           ELSE /\ Len(query_logs) < MaxLogs
                /\ \E found \in SqlNearest(query_embedding, 1) :
                     LET matches == McpMatches(found, query_embedding)
                     IN  IF found = <<>>
                         THEN /\ query_logs' = Append(query_logs, query_log)
                              /\ last' = call @@ [code |-> "OK",
                                                  matches |-> matches,
                                                  resp |-> McpNoMatch]
                         ELSE IF fault = "update"
                         THEN \* the second db.commit() raises
                              /\ query_logs' = Append(query_logs, query_log)
                              /\ last' = call @@ [code |-> "RAISED",
                                                  matches |-> matches,
                                                  resp |-> Raised("commit")]
                         ELSE /\ query_logs' = Append(query_logs,
                                       WithSelected(query_log, found[1]))
                              /\ last' = call @@
                                   [code |-> "OK", matches |-> matches,
                                    resp |-> McpJokeItem(found[1], query_embedding)]
        /\ UNCHANGED <<jokes, next_joke_id, tags, joke_tags, joke_collection,
                       joke_feedback, in_flight>>

\* ------------------------------------------- get_joke, commit by commit
\* The first part of get_joke: the query is embedded and its QueryLog row is
\* added and committed (the first db.commit()), before the similarity query.
get_joke_log(query, context, fault) ==
    LET query_embedding == create_embedding(QueryText(query, context))
        query_log == McpLogEntry(query, context, query_embedding)
    IN  /\ IF fault = "log"
           THEN /\ last' = [op |-> "get_joke", query |-> query,
                            context |-> context, fault |-> fault,
                            code |-> "RAISED", matches |-> <<>>,
                            resp |-> Raised("commit")]
                /\ UNCHANGED <<query_logs, in_flight>>
           ELSE /\ Len(query_logs) < MaxLogs
                /\ query_logs' = Append(query_logs, query_log)
                /\ in_flight' = in_flight \cup
                       {[op |-> "get_joke", query |-> query,
                         context |-> context,
                         log_id |-> Len(query_logs) + 1]}
                /\ UNCHANGED last
        /\ UNCHANGED <<jokes, next_joke_id, tags, joke_tags, joke_collection,
                       joke_feedback>>

\* The second part: the similarity query, then query_log.selected_joke_id =
\* joke.id and the second db.commit(), which rewrites the committed row.
get_joke_select(call, fault) ==
    LET query_embedding == create_embedding(QueryText(call.query, call.context))
        req == [op |-> "get_joke", query |-> call.query,
                context |-> call.context, fault |-> fault]
    IN  /\ call \in in_flight
        /\ call.op = "get_joke"
        /\ in_flight' = in_flight \ {call}
        /\ \E found \in SqlNearest(query_embedding, 1) :
             LET matches == McpMatches(found, query_embedding)
             IN  IF found = <<>>
                 THEN /\ last' = req @@ [code |-> "OK", matches |-> matches,
                                         resp |-> McpNoMatch]
                      /\ UNCHANGED query_logs
                 ELSE IF fault = "update"
                 THEN /\ last' = req @@ [code |-> "RAISED",
                                         matches |-> matches,
                                         resp |-> Raised("commit")]
                      /\ UNCHANGED query_logs
                 ELSE /\ query_logs' =
                           [query_logs EXCEPT ![call.log_id] =
                               WithSelected(@, found[1])]
                      /\ last' = req @@
                           [code |-> "OK", matches |-> matches,
                            resp |-> McpJokeItem(found[1], query_embedding)]
        /\ UNCHANGED <<jokes, next_joke_id, tags, joke_tags, joke_collection,
                       joke_feedback>>

\* --------------------------------------------------------------- get_jokes
get_jokes(query, limit, context, fault) ==
    LET query_embedding == create_embedding(QueryText(query, context))
        query_log == McpLogEntry(query, context, query_embedding)
        call == [op |-> "get_jokes", query |-> query, context |-> context, limit |-> limit,
                 fault |-> fault]
    IN  /\ IF fault = "log"
           THEN \* the first db.commit() raises; nothing catches it
                /\ last' = call @@ [code |-> "RAISED", matches |-> <<>>,
                                    resp |-> Raised("commit")]
                /\ UNCHANGED query_logs
           ELSE /\ Len(query_logs) < MaxLogs
                /\ \E found \in SqlNearest(query_embedding, limit) :
                     LET matches == McpMatches(found, query_embedding)
                     IN  IF found = <<>>
                         THEN /\ query_logs' = Append(query_logs, query_log)
                              /\ last' = call @@ [code |-> "OK",
                                                  matches |-> matches,
                                                  resp |-> <<McpNoMatchJokes>>]
                         ELSE IF fault = "update"
                         THEN \* the second db.commit() raises
                              /\ query_logs' = Append(query_logs, query_log)
                              /\ last' = call @@ [code |-> "RAISED",
                                                  matches |-> matches,
                                                  resp |-> Raised("commit")]
                         ELSE /\ query_logs' = Append(query_logs,
                                       WithSelected(query_log, found[1]))
                              /\ last' = call @@
                                   [code |-> "OK", matches |-> matches,
                                    resp |-> [i \in 1..Len(found) |->
                                           McpJokeItem(found[i], query_embedding)]]
        /\ UNCHANGED <<jokes, next_joke_id, tags, joke_tags, joke_collection,
                       joke_feedback, in_flight>>

\* --------------------------------------------------------- record_feedback
\* For an existing joke the tool builds JokeFeedback(joke_id=..., user_id=...,
\* liked=...); the mapped class has no user_id attribute, so the constructor
\* raises TypeError and nothing is written.
record_feedback(joke_id, liked) ==
    /\ IF ~JokeExists(joke_id)
       THEN last' = [op |-> "record_feedback", joke_id |-> joke_id,
                     liked |-> liked, code |-> "OK",
                     resp |-> [success |-> FALSE, message |-> "not found"]]
       ELSE last' = [op |-> "record_feedback", joke_id |-> joke_id,
                     liked |-> liked, code |-> "RAISED",
                     resp |-> Raised("TypeError")]
    /\ UNCHANGED <<jokes, next_joke_id, tags, joke_tags, joke_collection,
                   query_logs, joke_feedback, in_flight>>

\* ---------------------------------------------------------------- add_joke
\* The tag loop of add_joke: db.flush() follows each new Tag, so a later
\* occurrence of the name finds the row.  The result is the new names, once
\* each, in order of first occurrence.
FlushedTagNames(tag_table, tag_names) ==
    LET idx == {i \in 1..Len(tag_names) :
                   /\ TagIdsNamed(tag_table, tag_names[i]) = {}
                   /\ \A j \in 1..(i - 1) : tag_names[j] # tag_names[i]}
        Sorted[k \in 0..Len(tag_names)] ==
            IF k = 0 THEN <<>>
            ELSE IF k \in idx THEN Append(Sorted[k - 1], tag_names[k])
            ELSE Sorted[k - 1]
    IN  Sorted[Len(tag_names)]

AddFaults == {"none", "commit"}

add_joke(text, category, tag_names, fault) ==
    LET call == [op |-> "add_joke", text |-> text, category |-> category,
                 tag_names |-> tag_names, fault |-> fault]
        joke_id == next_joke_id
        new_tags == InsertTags(tags, FlushedTagNames(tags, tag_names))
    IN  /\ next_joke_id <= MaxJokes
        /\ next_joke_id' = next_joke_id + 1
        /\ IF category = NoCategory
           THEN \* jokes.category is NOT NULL: db.flush() raises
                /\ last' = call @@ [code |-> "RAISED",
                                    resp |-> Raised("IntegrityError")]
                /\ UNCHANGED <<jokes, tags, joke_tags>>
           ELSE IF fault = "commit"
           THEN /\ last' = call @@ [code |-> "RAISED",
                                    resp |-> Raised("commit")]
                /\ UNCHANGED <<jokes, tags, joke_tags>>
           ELSE /\ jokes' = jokes @@ (joke_id :>
                       [text |-> text, category |-> category,
                        embedding |-> Some(create_embedding(text))])
                /\ tags' = new_tags
                /\ joke_tags' = joke_tags \cup
                       TagRows(joke_id, new_tags, tag_names)
                /\ last' = call @@
                     [code |-> "OK",
                      resp |-> [id |-> joke_id, text |-> text,
                                category |-> category,
                                tags |-> TagNamesOf(joke_id, new_tags,
                                                    joke_tags')]]
        /\ UNCHANGED <<joke_collection, query_logs, joke_feedback, in_flight>>

\* ---------------------------------------------------------- get_joke_by_id
\* the dict get_joke_by_id builds from the row
JokeDict(joke_id) ==
    [id |-> joke_id, text |-> jokes[joke_id].text,
     category |-> jokes[joke_id].category,
     tags |-> TagNamesOf(joke_id, tags, joke_tags)]

get_joke_by_id(joke_id) ==
    /\ last' = [op |-> "get_joke_by_id", joke_id |-> joke_id, code |-> "OK",
                resp |-> IF JokeExists(joke_id) THEN JokeDict(joke_id)
                         ELSE [error |-> "not found"]]
    /\ UNCHANGED <<jokes, next_joke_id, tags, joke_tags, joke_collection,
                   query_logs, joke_feedback, in_flight>>

\* ============================================= data_loader.import_jokes
\* one element of the JSON file: "category" and "tags" may be missing
ImportRecords ==
    [text : JokeTexts, category : {NULL, Some("pun")},
     tags : {NULL} \cup {Some(tl) : tl \in TagLists}]

Batches == UNION {[1..n -> ImportRecords] : n \in 1..MaxBatch}

\* joke_data.get("category", "general")
CategoryOf(rec) ==
    IF rec.category = NULL THEN "general" ELSE CHOOSE c \in rec.category : TRUE

\* joke_data["tags"] when the key is present
TagsOf(rec) == CHOOSE tl \in rec.tags : TRUE

SeqRange(sq) == {sq[i] : i \in 1..Len(sq)}

\* db.query(Joke).filter(Joke.text == text).first() for every text: one of
\* the committed rows with that text, or None.  The session does not
\* autoflush, so rows added earlier in the same run are not seen.
FirstRowChoices ==
    {f \in [JokeTexts -> {NULL} \cup {Some(id) : id \in DOMAIN jokes}] :
        \A t \in JokeTexts :
            LET same == {id \in DOMAIN jokes : jokes[id].text = t}
            IN  IF same = {} THEN f[t] = NULL ELSE f[t] \subseteq same /\ f[t] # NULL}

\* the tags of the record merged into the tags the joke has
ImportStep_MergeTags(sess, rec, first, regenerate_embeddings) ==
    LET pend == IF rec.tags = NULL THEN sess.pending
                ELSE sess.pending \o PendingTagNames(tags, TagsOf(rec))
    IN  IF first[rec.text] # NULL
        THEN LET id == CHOOSE i \in first[rec.text] : TRUE
             IN  [sess EXCEPT
                    !.rows[id] =
                        [text |-> @.text,
                         category |-> CategoryOf(rec),
                         embedding |-> IF regenerate_embeddings
                                       THEN Some(create_embedding(@.text))
                                       ELSE @.embedding],
                    !.names[id] = IF rec.tags = NULL THEN @
                                  ELSE @ \cup SeqRange(TagsOf(rec)),
                    !.pending = pend]
        ELSE [sess EXCEPT
                !.added = Append(@,
                    [text |-> rec.text, category |-> CategoryOf(rec),
                     embedding |-> Some(create_embedding(rec.text)),
                     names |-> IF rec.tags = NULL THEN {}
                               ELSE SeqRange(TagsOf(rec))]),
                !.pending = pend]

\* the session after the loop body has run for one record
ImportStep(sess, rec, first, regenerate_embeddings) ==
    LET pend == IF rec.tags = NULL THEN sess.pending
                ELSE sess.pending \o PendingTagNames(tags, TagsOf(rec))
    IN  IF first[rec.text] # NULL
        THEN LET id == CHOOSE i \in first[rec.text] : TRUE
             IN  [sess EXCEPT
                    !.rows[id] =
                        [text |-> @.text,
                         category |-> CategoryOf(rec),
                         embedding |-> IF regenerate_embeddings
                                       THEN Some(create_embedding(@.text))
                                       ELSE @.embedding],
                    !.names[id] = IF rec.tags = NULL THEN @
                                  ELSE SeqRange(TagsOf(rec)),
                    !.pending = pend]
        ELSE [sess EXCEPT
                !.added = Append(@,
                    [text |-> rec.text, category |-> CategoryOf(rec),
                     embedding |-> Some(create_embedding(rec.text)),
                     names |-> IF rec.tags = NULL THEN {}
                               ELSE SeqRange(TagsOf(rec))]),
                !.pending = pend]

\* the session when the for loop ends
RECURSIVE ImportLoop(_, _, _, _, _)
ImportLoop(sess, jokes_data, k, first, regenerate_embeddings) ==
    IF k > Len(jokes_data) THEN sess
    ELSE ImportLoop(ImportStep(sess, jokes_data[k], first,
                               regenerate_embeddings),
                    jokes_data, k + 1, first, regenerate_embeddings)

ImportFaults == {"none", "commit"}

Rollback_KeepsPending(before, attempted) == attempted

\* db.rollback(): the table keeps the rows it had before the session's
\* pending changes
Rollback(before, attempted) == before

import_jokes(jokes_data, regenerate_embeddings, fault) ==
    \E first \in FirstRowChoices :
      LET start == [rows |-> jokes,
                    names |-> [id \in DOMAIN jokes |->
                                  TagNamesOf(id, tags, joke_tags)],
                    added |-> <<>>, pending |-> <<>>]
          sess == ImportLoop(start, jokes_data, 1, first,
                             regenerate_embeddings)
          n == Len(sess.added)
          new_tags == InsertTags(tags, sess.pending)
          new_ids == next_joke_id..(next_joke_id + n - 1)
          all_names == [id \in DOMAIN jokes \cup new_ids |->
                           IF id \in DOMAIN jokes THEN sess.names[id]
                           ELSE sess.added[id - next_joke_id + 1].names]
          new_jokes == [id \in DOMAIN jokes \cup new_ids |->
                          IF id \in DOMAIN jokes THEN sess.rows[id]
                          ELSE [text |-> sess.added[id - next_joke_id + 1].text,
                                category |-> sess.added[id - next_joke_id + 1].category,
                                embedding |-> sess.added[id - next_joke_id + 1].embedding]]
          call == [op |-> "import_jokes", jokes_data |-> jokes_data,
                   regenerate_embeddings |-> regenerate_embeddings,
                   fault |-> fault]
      IN  /\ next_joke_id + n - 1 <= MaxJokes
          /\ IF fault = "commit" \/ ~UniqueNames(sess.pending)
             THEN \* db.commit() raises; db.rollback() undoes the run
                  /\ last' = call @@ [code |-> "ROLLED_BACK"]
                  /\ \E drawn \in 0..n : next_joke_id' = next_joke_id + drawn
                  /\ jokes' = Rollback(jokes, new_jokes)
                  /\ UNCHANGED <<tags, joke_tags>>
             ELSE /\ last' = call @@ [code |-> "OK"]
                  /\ next_joke_id' = next_joke_id + n
                  /\ jokes' = new_jokes
                  /\ tags' = new_tags
                  /\ joke_tags' =
                       {<<id, t>> : id \in DOMAIN all_names, t \in DOMAIN new_tags}
                       \cap {p \in (DOMAIN all_names) \X (DOMAIN new_tags) :
                                new_tags[p[2]] \in all_names[p[1]]}
          /\ UNCHANGED <<joke_collection, query_logs, joke_feedback, in_flight>>

\* ========================================================= database sessions
\* the calls that open a database session
SessionOps ==
    {"GetJoke", "GetJokes", "RecordFeedback", "AddJoke", "import_jokes",
     "get_joke", "get_jokes", "record_feedback", "add_joke", "get_joke_by_id"}

\* Whether the session a call opened has been closed when the call ends.
\* The servicer methods and import_jokes close it in a finally block.  The
\* tools take it with next(get_db()) and call db.close() themselves before
\* each return statement; no close is reached when an exception leaves the
\* tool.
SessionClosedAtEnd(call) ==
    IF call.op \in {"GetJoke", "GetJokes", "RecordFeedback", "AddJoke",
                    "import_jokes"}
    THEN TRUE
    ELSE call.code # "RAISED"

\* ======================================================= main.start_server
\* the server type a caller names, if any
ServerTypes == {NULL, Some("grpc"), Some("mcp")}

\* start_server(init_database): the command has the one parameter
\* init_database, so a call that names a server type is rejected before the
\* body runs (TypeError for a Python call, "no such option" on the command
\* line).  The body runs init_db() when asked and then start_grpc_server().
\* The servers the call started are recorded in the call record.
start_server(server_type, init_database) ==
    /\ last' = [op |-> "start_server", server_type |-> server_type,
                init_database |-> init_database, fault |-> "none"] @@
               (IF server_type # NULL
                THEN [code |-> "RAISED", resp |-> Raised("TypeError"),
                      started |-> {}]
                ELSE [code |-> "OK", resp |-> NULL, started |-> {"grpc"}])
    /\ UNCHANGED <<jokes, next_joke_id, tags, joke_tags, joke_collection,
                   query_logs, joke_feedback, in_flight>>

\* ------------------------------------------------------------ specification
\* the retrieval calls of both servers
RetrievalCalls ==
    \/ \E q \in Queries, c \in Contexts, f \in GetJokeFaults : GetJoke(q, c, f)
    \/ \E q \in Queries, c \in Contexts, k \in 0..MaxK, f \in GetJokeFaults :
          GetJokes(q, c, k, f)
    \/ \E q \in Queries, c \in Contexts, f \in McpGetFaults : get_joke(q, c, f)
    \/ \E q \in Queries, c \in Contexts, k \in 0..MaxK, f \in McpGetFaults :
          get_jokes(q, k, c, f)

FeedbackCalls ==
    \/ \E id \in 1..(MaxJokes + 1), liked \in BOOLEAN, f \in FeedbackFaults :
          RecordFeedback(id, liked, f)
    \/ \E id \in 1..(MaxJokes + 1), liked \in BOOLEAN : record_feedback(id, liked)

AddCalls ==
    \/ \E t \in JokeTexts, c \in Categories, tl \in TagLists,
          f \in AddJokeFaults : AddJoke(t, c, tl, f)
    \/ \E t \in JokeTexts, c \in Categories, tl \in TagLists,
          f \in AddFaults : add_joke(t, c, tl, f)

ImportCalls ==
    \E b \in Batches, r \in BOOLEAN, f \in ImportFaults : import_jokes(b, r, f)

LookupCalls ==
    \E id \in 1..(MaxJokes + 1) : get_joke_by_id(id)

\* starting the service
StartCalls ==
    \E st \in ServerTypes, init \in BOOLEAN : start_server(st, init)

Next ==
    \/ RetrievalCalls
    \/ FeedbackCalls
    \/ AddCalls
    \/ ImportCalls
    \/ LookupCalls
    \/ StartCalls

Spec == Init /\ [][Next]_vars

\* A corpus built by add calls that give a category and one tag
SeedTagLists == {<<"x">>}

SeedCalls ==
    \/ \E t \in JokeTexts, tl \in SeedTagLists, f \in AddJokeFaults :
          AddJoke(t, "pun", tl, f)
    \/ \E t \in JokeTexts, tl \in SeedTagLists, f \in AddFaults :
          add_joke(t, "pun", tl, f)

\* retrieval over such a corpus
NextRetrieval == SeedCalls \/ RetrievalCalls
SpecRetrieval == Init /\ [][NextRetrieval]_vars

\* feedback over such a corpus
NextFeedback == SeedCalls \/ FeedbackCalls
SpecFeedback == Init /\ [][NextFeedback]_vars

\* adding and looking up items, with every tag list
NextItems == AddCalls \/ LookupCalls
SpecItems == Init /\ [][NextItems]_vars

\* AddJoke calls running beside the gRPC retrieval calls
GrpcRetrievalCalls ==
    \/ \E q \in Queries, c \in Contexts, f \in GetJokeFaults : GetJoke(q, c, f)
    \/ \E q \in Queries, c \in Contexts, k \in 0..MaxK, f \in GetJokeFaults :
          GetJokes(q, c, k, f)

ConcurrentAddCalls ==
    \/ \E t \in JokeTexts, tl \in SeedTagLists : AddJokeWrite(t, "pun", tl)
    \/ \E call \in in_flight, f \in {"none", "commit"} : AddJokeCommit(call, f)

NextConcurrent == ConcurrentAddCalls \/ GrpcRetrievalCalls
SpecConcurrent == Init /\ [][NextConcurrent]_vars

\* retrieval calls whose query is the empty string (for gRPC also an unset
\* query field, which reads as ""), over a seeded corpus
EmptyQuery == <<>>

EmptyQueryCalls ==
    \/ \E c \in Contexts, f \in GetJokeFaults : GetJoke(EmptyQuery, c, f)
    \/ \E c \in Contexts, k \in 0..MaxK, f \in GetJokeFaults :
          GetJokes(EmptyQuery, c, k, f)
    \/ \E c \in Contexts, f \in McpGetFaults : get_joke(EmptyQuery, c, f)
    \/ \E c \in Contexts, k \in 0..MaxK, f \in McpGetFaults :
          get_jokes(EmptyQuery, k, c, f)

NextEmptyQuery == SeedCalls \/ EmptyQueryCalls
SpecEmptyQuery == Init /\ [][NextEmptyQuery]_vars

\* starting the service, beside calls that build a corpus
NextStartup == StartCalls \/ SeedCalls
SpecStartup == Init /\ [][NextStartup]_vars

\* retrieve-one calls with the commits of get_joke as separate steps
SteppedCalls ==
    \/ \E q \in Queries, c \in Contexts, f \in GetJokeFaults : GetJoke(q, c, f)
    \/ \E q \in Queries, c \in Contexts, f \in {"none", "log"} :
          get_joke_log(q, c, f)
    \/ \E call \in in_flight, f \in {"none", "update"} :
          get_joke_select(call, f)

NextStepped == SeedCalls \/ SteppedCalls
SpecStepped == Init /\ [][NextStepped]_vars

\* imports over a corpus of jokes that AddJoke stored with tag x: records
\* for one text, without a category, with no tags key, one new tag, or the
\* new tag twice
SeedRecords ==
    [text : {T1}, category : {NULL},
     tags : {NULL, Some(<<"y">>), Some(<<"y", "y">>)}]

SeedBatches == UNION {[1..n -> SeedRecords] : n \in 1..MaxBatch}

SeedImportCalls ==
    \/ \E t \in JokeTexts, tl \in SeedTagLists : AddJoke(t, "pun", tl, "none")
    \/ \E b \in SeedBatches, r \in BOOLEAN, f \in ImportFaults :
          import_jokes(b, r, f)

NextImport == SeedImportCalls
SpecImport == Init /\ [][NextImport]_vars

\* ================================================================ claims
RetrieveOneOps == {"GetJoke", "get_joke"}
RetrieveManyOps == {"GetJokes", "get_jokes"}
RetrievalOps == RetrieveOneOps \cup RetrieveManyOps
AddOps == {"AddJoke", "add_joke"}
FeedbackOps == {"RecordFeedback", "record_feedback"}

\* the search of the call ran and returned at least one candidate
MatchSelected == last.op \in RetrievalOps /\ last.matches # <<>>

\* lower case of the characters in use
Lower(c) ==
    CASE c = "H" -> "h"
      [] c = "E" -> "e"
      [] c = "Z" -> "z"
      [] OTHER -> c

LowerText(t) == [i \in 1..Len(t) |-> Lower(t[i])]

\* the query occurs in the text, case ignored
IsSubstringCI(q, t) ==
    \E i \in 1..(Len(t) + 1) :
        /\ i + Len(q) - 1 <= Len(t)
        /\ SubSeq(LowerText(t), i, i + Len(q) - 1) = LowerText(q)

\* C1: in GetJoke, when the primary match's score is below the threshold but
\* the raw query is a case-insensitive substring of the matched item's text,
\* the returned clarification flag is false.
C1_SubstringOverride ==
    (/\ last.op = "GetJoke"
     /\ last.code = "OK"
     /\ last.matches # <<>>
     /\ last.matches[1].score < VECTOR_SIMILARITY_THRESHOLD
     /\ IsSubstringCI(last.query, last.resp.text))
    => last.resp.is_clarification_needed = FALSE

\* C2: every retrieval call that meets no fault, also one whose search
\* returns no candidates, adds exactly one row to query_logs.
C2_OneLogEntryPerCall ==
    [][(last'.op \in RetrievalOps /\ last'.fault = "none")
       => Len(query_logs') = Len(query_logs) + 1]_vars

\* C3: when the search of a retrieve_one call returns no candidates, the call
\* answers normally with an id that no stored item has, score 0, the
\* clarification flag set and a non-empty fixed message.
C3_NoMatchWellFormed ==
    (/\ last.op \in RetrieveOneOps
     /\ last.matches = <<>>
     /\ ~(last.op = "get_joke" /\ last.fault = "log"))
    => /\ last.code = "OK"
       /\ last.resp.id \notin DOMAIN jokes
       /\ \/ "relevance_score" \in DOMAIN last.resp
             /\ last.resp.relevance_score = 0
          \/ "similarity_score" \in DOMAIN last.resp
             /\ last.resp.similarity_score = 0
       /\ last.resp.text # <<>>
       /\ "is_clarification_needed" \in DOMAIN last.resp
       /\ last.resp.is_clarification_needed = TRUE

\* C4: when the query log write fails after a match has been selected, the
\* retrieval call still answers normally, and retrieve_one answers with the
\* selected match.
C4_LogFailureKeepsResult ==
    (MatchSelected /\ last.fault \in {"log", "update"})
    => /\ last.code = "OK"
       /\ last.op \in RetrieveOneOps => last.resp.id = last.matches[1].id

\* C5: feedback for an item id that resolves to no item is answered with a
\* not-found failure and leaves joke_feedback as it was.
C5_FeedbackForMissingItem ==
    [][(last'.op \in FeedbackOps /\ last'.joke_id \notin DOMAIN jokes)
       => /\ joke_feedback' = joke_feedback
          /\ "success" \in DOMAIN last'.resp
          /\ last'.resp.success = FALSE
          /\ last'.op = "RecordFeedback" => last'.code = "NOT_FOUND"
          /\ last'.op = "record_feedback" => last'.resp.message = "not found"]_vars

\* a not-found answer given while feedback rows and items exist
C5_Witness ==
    /\ last.op \in FeedbackOps
    /\ last.joke_id \notin DOMAIN jokes
    /\ DOMAIN jokes # {}
    /\ joke_feedback # <<>>

\* C6: with k at least the number n of documents in the collection, search
\* returns n results in descending score order, equal scores in ascending
\* id order.
C6_SearchRanked ==
    (/\ last.op = "GetJokes"
     /\ last.fault = "none"
     /\ EffectiveMaxResults(last.max_results) >= Cardinality(joke_collection))
    => /\ Len(last.matches) = Cardinality(joke_collection)
       /\ \A i, j \in 1..Len(last.matches) :
            i < j =>
              \/ last.matches[i].score > last.matches[j].score
              \/ /\ last.matches[i].score = last.matches[j].score
                 /\ last.matches[i].id < last.matches[j].id

\* C7: every similarity score a search returns or a result carries is
\* between 0 and 1.
C7_ScoreInUnitInterval ==
    (last.op \in RetrievalOps /\ last.fault = "none") =>
        \A i \in 1..Len(last.matches) :
            last.matches[i].score >= 0 /\ last.matches[i].score <= 100

\* C8: an item whose embedding column is NULL is in no result of the
\* similarity query over that column.
C8_NullEmbeddingExcluded ==
    last.op \in {"get_joke", "get_jokes"} =>
        \A i \in 1..Len(last.matches) :
            jokes[last.matches[i].id].embedding # NULL

\* C9: an add call succeeds whatever names its tag list repeats, and leaves
\* exactly one tags row for each name of the list.
C9_TagResolveIdempotent ==
    (/\ last.op \in AddOps
     /\ last.fault = "none"
     /\ ~(last.op = "add_joke" /\ last.category = NoCategory))
    => /\ last.code = "OK"
       /\ \A i \in 1..Len(last.tag_names) :
            Cardinality(TagIdsNamed(tags, last.tag_names[i])) = 1

\* C10: get_joke_by_id called with the id a successful add call has just
\* returned gives the text that was added and, as a set, the tags that
\* were given.
C10_AddThenGetRoundTrip ==
    [][(/\ last.op \in AddOps
        /\ last.code = "OK"
        /\ last'.op = "get_joke_by_id"
        /\ last'.joke_id = last.resp.id)
       => /\ "tags" \in DOMAIN last'.resp
          /\ last'.resp.text = last.text
          /\ last'.resp.tags = SeqRange(last.tag_names)]_vars

\* a lookup that returns two tags
C10_Witness ==
    /\ last.op = "get_joke_by_id"
    /\ "tags" \in DOMAIN last.resp
    /\ last.resp.tags = {"x", "y"}

\* C11: whatever AddJoke calls are in progress, every item id the search of a
\* gRPC retrieval call that meets no fault returns is the id of a committed
\* jokes row.
C11_SearchSeesCommittedItems ==
    (last.op \in {"GetJoke", "GetJokes"} /\ last.fault = "none") =>
        \A i \in 1..Len(last.matches) : last.matches[i].id \in DOMAIN jokes

\* C12: when the collection query of a GetJoke call fails, search gives the
\* empty list and the call answers normally with the no-match response.
C12_SearchFailureIsNoMatch ==
    (last.op = "GetJoke" /\ last.fault = "search")
    => /\ last.matches = <<>>
       /\ last.code = "OK"
       /\ last.resp = GrpcNoMatch

\* a failed collection query over a collection that holds a committed joke
C12_Witness ==
    /\ last.op = "GetJoke"
    /\ last.fault = "search"
    /\ \E doc \in joke_collection : doc.db_id \in DOMAIN jokes

\* C13: when the raw query is not a substring of the matched text, GetJoke
\* sets the clarification flag exactly when the score of the first match is
\* strictly below VECTOR_SIMILARITY_THRESHOLD, and a flagged response carries
\* a non-empty clarification prompt.
C13_ClarificationBelowThreshold ==
    (/\ last.op = "GetJoke"
     /\ last.code = "OK"
     /\ last.matches # <<>>
     /\ ~IsSubstringCI(last.query, last.resp.text))
    => /\ last.resp.relevance_score = last.matches[1].score
       /\ last.resp.is_clarification_needed =
              (last.matches[1].score < VECTOR_SIMILARITY_THRESHOLD)
       /\ last.resp.is_clarification_needed =>
              /\ last.resp.clarification_prompt # NULL
              /\ \A prompt \in last.resp.clarification_prompt : prompt # ""

\* a match whose score equals the threshold, for a query that is not in its
\* text
C13_Witness ==
    /\ last.op = "GetJoke"
    /\ last.code = "OK"
    /\ last.matches # <<>>
    /\ ~IsSubstringCI(last.query, last.resp.text)
    /\ last.matches[1].score = VECTOR_SIMILARITY_THRESHOLD
    /\ last.resp.is_clarification_needed = FALSE

\* C14: a GetJokes call that meets no fault and whose search returns matches
\* answers with exactly one item for each (id, score) pair of the search,
\* and the item of an id carries the score the search returned for it.
C14_OneItemPerMatch ==
    (/\ last.op = "GetJokes"
     /\ last.fault = "none"
     /\ last.matches # <<>>)
    => /\ last.code = "OK"
       /\ Len(last.resp) = Len(last.matches)
       /\ \A i \in 1..Len(last.matches) :
            \E j \in 1..Len(last.resp) :
                /\ last.resp[j].id = last.matches[i].id
                /\ last.resp[j].relevance_score = last.matches[i].score

\* C15: no two rows of the jokes table have the same text.
C15_TextIsUnique ==
    \A a, b \in DOMAIN jokes : a # b => jokes[a].text # jokes[b].text

\* C16: over a corpus in which every add call has succeeded, GetJoke (Chroma
\* collection) and get_joke (pgvector column), called one after the other
\* with the same query and context and meeting no fault, select the same
\* candidates: both none, or the same id with the same score.
C16_BackendsAgree ==
    [][(/\ {last.op, last'.op} = RetrieveOneOps
        /\ \A doc \in joke_collection : doc.db_id \in DOMAIN jokes
        /\ last.fault = "none"
        /\ last'.fault = "none"
        /\ last'.query = last.query
        /\ last'.context = last.context)
       => last'.matches = last.matches]_vars

\* C17: a feedback call for the id of an existing item that meets no storage
\* fault appends exactly one joke_feedback row, with that joke id and the
\* given liked value, and reports success.
C17_FeedbackForExistingItem ==
    [][(/\ last'.op \in FeedbackOps
        /\ last'.joke_id \in DOMAIN jokes
        /\ "fault" \in DOMAIN last' => last'.fault = "none")
       => /\ Len(joke_feedback') = Len(joke_feedback) + 1
          /\ SubSeq(joke_feedback', 1, Len(joke_feedback)) = joke_feedback
          /\ joke_feedback'[Len(joke_feedback')].joke_id = last'.joke_id
          /\ joke_feedback'[Len(joke_feedback')].liked = last'.liked
          /\ "success" \in DOMAIN last'.resp
          /\ last'.resp.success = TRUE]_vars

\* the status of a call rejected for a malformed argument
ValidationCodes == {"INVALID_ARGUMENT", "ValidationError"}

\* C18: a retrieval call whose query is empty, made when jokes are stored, is
\* answered with a validation error, its search is not run and query_logs is
\* left as it was.
C18_EmptyQueryRejected ==
    [][(last'.op \in RetrievalOps /\ last'.query = EmptyQuery
        /\ last'.fault = "none" /\ DOMAIN jokes # {})
       => /\ last'.code \in ValidationCodes
          /\ last'.matches = <<>>
          /\ query_logs' = query_logs]_vars

\* C19: an add or feedback call whose storage write fails changes no table
\* and reports an error (the gRPC handlers: status INTERNAL with their error
\* response); a call that reports success has written its row.
C19_StorageFailureReported ==
    [][/\ (/\ last'.op \in AddOps \cup {"RecordFeedback"}
           /\ last'.fault # "none"
           /\ last'.op = "RecordFeedback" => last'.joke_id \in DOMAIN jokes)
          => /\ last'.code \in {"INTERNAL", "RAISED"}
             /\ last'.op \in {"AddJoke", "RecordFeedback"} =>
                    last'.code = "INTERNAL"
             /\ last'.op = "AddJoke" => last'.resp = GrpcAddJokeError
             /\ last'.op = "RecordFeedback" => last'.resp.success = FALSE
             /\ UNCHANGED <<jokes, tags, joke_tags, joke_feedback>>
       /\ (last'.op \in AddOps /\ last'.code = "OK")
          => /\ last'.resp.id \in DOMAIN jokes' \ DOMAIN jokes
             /\ jokes'[last'.resp.id].text = last'.text
       /\ (/\ last'.op \in FeedbackOps
           /\ "success" \in DOMAIN last'.resp
           /\ last'.resp.success)
          => /\ Len(joke_feedback') = Len(joke_feedback) + 1
             /\ joke_feedback'[Len(joke_feedback')].joke_id = last'.joke_id
      ]_vars

\* a feedback call for an existing joke whose commit failed, after an
\* earlier one was recorded
C19_Witness ==
    /\ last.op = "RecordFeedback"
    /\ last.fault = "commit"
    /\ last.joke_id \in DOMAIN jokes
    /\ last.code = "INTERNAL"
    /\ joke_feedback # <<>>

\* C20: an add_joke call without a category that meets no fault succeeds and
\* stores the item with a category that is not absent.
C20_DefaultCategory ==
    (/\ last.op = "add_joke"
     /\ last.category = NoCategory
     /\ last.fault = "none")
    => /\ last.code = "OK"
       /\ last.resp.id \in DOMAIN jokes
       /\ jokes[last.resp.id].category # NoCategory

\* the k a gRPC retrieval call hands to search
SearchK == IF last.op = "GetJoke" THEN 1
           ELSE EffectiveMaxResults(last.max_results)

\* C21: the list search returns to a gRPC retrieval call has one pair for
\* each candidate the collection query returns, in the order of the
\* candidates, the id being the candidate's db_id and the score 1 minus its
\* distance.
C21_SearchMapsCandidates ==
    (last.op \in {"GetJoke", "GetJokes"} /\ last.fault # "search") =>
        \E r \in ChromaQuery(joke_collection,
                             QueryText(last.query, last.context), SearchK) :
            /\ Len(last.matches) = Len(r)
            /\ \A i \in 1..Len(r) :
                 /\ last.matches[i].id = r[i].db_id
                 /\ last.matches[i].score =
                        100 - ModelDistance(QueryText(last.query, last.context),
                                            r[i].text)

\* two candidates at different distances, the nearer one with the higher id
C21_Witness ==
    /\ last.op = "GetJokes"
    /\ Len(last.matches) = 2
    /\ last.matches[1].id > last.matches[2].id
    /\ last.matches[1].score > last.matches[2].score

\* C22: start_server starts exactly one server: the MCP server when the
\* server type "mcp" is given, the gRPC server when "grpc" or no server type
\* is given.
C22_StartsExactlyOneServer ==
    last.op = "start_server" =>
        last.started = IF last.server_type = Some("mcp") THEN {"mcp"}
                       ELSE {"grpc"}

\* every document of the collection belongs to a committed jokes row
CorpusCommitted == \A doc \in joke_collection : doc.db_id \in DOMAIN jokes

C24_LogAfterDecision ==
    [][/\ Len(query_logs') > Len(query_logs) => in_flight' \subseteq in_flight
       /\ \A i \in 1..Len(query_logs) : query_logs'[i] = query_logs[i]]_vars

LastTagged(jokes_data, k) ==
    /\ jokes_data[k].tags # NULL
    /\ \A m \in (k + 1)..Len(jokes_data) :
           jokes_data[m].text = jokes_data[k].text => jokes_data[m].tags = NULL

\* C26: after an import that succeeds, for every text that was stored before
\* and for which the batch supplies tags, a joke with that text that was
\* stored before has exactly the tags of the last such record: none of its
\* earlier tags is kept.
C26_ImportReplacesTags ==
    [][(last'.op = "import_jokes" /\ last'.code = "OK") =>
         \A k \in 1..Len(last'.jokes_data) :
            (/\ LastTagged(last'.jokes_data, k)
             /\ \E id \in DOMAIN jokes :
                    jokes[id].text = last'.jokes_data[k].text)
            => \E id \in DOMAIN jokes :
                  /\ jokes[id].text = last'.jokes_data[k].text
                  /\ TagNamesOf(id, tags', joke_tags') =
                         SeqRange(TagsOf(last'.jokes_data[k]))]_vars

\* after an import, a joke that AddJoke stored with tag x has tag y alone
C26_Witness ==
    /\ last.op = "import_jokes"
    /\ last.code = "OK"
    /\ \E id \in DOMAIN jokes :
          /\ jokes[id].embedding = NULL
          /\ TagNamesOf(id, tags, joke_tags) = {"y"}

\* C27: when a call that opened a database session has ended, by returning
\* or by raising, its session is closed.
C27_SessionClosed ==
    last.op \in SessionOps => SessionClosedAtEnd(last)

\* C28: after any sequence of complete add calls, failed ones included, a
\* gRPC retrieval call that meets no fault itself answers normally, and
\* every document of the collection and every id its search returned
\* belongs to a committed jokes row.
C28_NoDanglingIds ==
    (last.op \in {"GetJoke", "GetJokes"} /\ last.fault = "none")
    => /\ last.code = "OK"
       /\ \A doc \in joke_collection : doc.db_id \in DOMAIN jokes
       /\ \A i \in 1..Len(last.matches) : last.matches[i].id \in DOMAIN jokes

\* C29: an AddJoke call that runs beside other AddJoke calls and whose
\* commit meets no storage fault succeeds, and afterwards each name of its
\* tag list has exactly one tags row, which its joke references.
C29_ConcurrentTagCreation ==
    (last.op = "AddJoke" /\ last.fault = "none")
    => /\ last.code = "OK"
       /\ \A i \in 1..Len(last.tag_names) :
            /\ Cardinality(TagIdsNamed(tags, last.tag_names[i])) = 1
            /\ last.tag_names[i] \in
                   TagNamesOf(last.resp.id, tags, joke_tags)

\* C30: an import_jokes run that fails while processing or committing its
\* batch leaves the jokes, tags and joke_tags tables and the vector
\* collection exactly as they were before the run.
C30_ImportAllOrNothing ==
    [][(last'.op = "import_jokes" /\ last'.code = "ROLLED_BACK")
       => UNCHANGED <<jokes, tags, joke_tags, joke_collection>>]_vars

\* a run over a stored corpus whose batch carries a record failed
C30_Witness ==
    /\ last.op = "import_jokes"
    /\ last.code = "ROLLED_BACK"
    /\ Len(last.jokes_data) > 0
    /\ \E id \in DOMAIN jokes : jokes[id].text = last.jokes_data[1].text

====
